---- MODULE Spec2Model ----
(***************************************************************************)
(* PrintFunctionLog.py: the calibrator of the fixed-point natural-log      *)
(* routine.  The script builds the high-term table, grows the low-term     *)
(* table while the external precision oracle `log` reports a strictly      *)
(* better score, computes the column widths and prints the routine.        *)
(*                                                                         *)
(* The script is modelled statement by statement: pc is the position in    *)
(* the module body, the other variables are the module-level names.        *)
(* The configuration constants and the oracle are external: the            *)
(* configuration is drawn in Init, every oracle call draws its result      *)
(* (a score, or a raised exception).                                       *)
(***************************************************************************)
EXTENDS Integers, Sequences, FiniteSets

VARIABLES
    PRECISION,              \* from constants import *
    LOG_NUM_OF_HI_TERMS,    \* from constants import *
    LOG_MAX_HI_TERM_VAL,    \* from constants import *
    pc,                     \* position in the module body
    raised,                 \* an exception was raised at pc and ended the script
    FIXED_ONE,
    hiTerms,
    loTerms,
    n,                      \* the name n of lines 20 and 31
    MAX_VAL,
    res,
    loTermsNext,
    resNext,
    hiTermValMaxLen,
    hiTermExpMaxLen,
    loTermNumMaxLen,
    loTermDenMaxLen,
    term,                   \* position of the for loops of lines 49 and 55
    out,                    \* the lines printed so far
    calls                   \* the calls made to the oracle so far, in order

config == <<PRECISION, LOG_NUM_OF_HI_TERMS, LOG_MAX_HI_TERM_VAL>>
widths == <<hiTermValMaxLen, hiTermExpMaxLen, loTermNumMaxLen, loTermDenMaxLen>>
vars == <<PRECISION, LOG_NUM_OF_HI_TERMS, LOG_MAX_HI_TERM_VAL, pc, raised, FIXED_ONE,
          hiTerms, loTerms, n, MAX_VAL, res, loTermsNext, resNext,
          hiTermValMaxLen, hiTermExpMaxLen, loTermNumMaxLen, loTermDenMaxLen,
          term, out, calls>>

---------------------------------------------------------------------------
(* Bounds of the model *)

MaxPrecision == 2
MaxNumHiTerms == 2
MaxHiVal == 2
MaxScore == 2

\* The configurations: PRECISION -1 and LOG_NUM_OF_HI_TERMS -1 are the
\* invalid ones (negative shift count, empty high-term table).
Precisions == -1 .. MaxPrecision
NumsOfHiTerms == -1 .. MaxNumHiTerms
MaxHiTermVals == 1 .. MaxHiVal

\* What a call of the oracle can produce: a score, or an exception.
Scores == 0 .. MaxScore
RAISED == -2
OracleResults == Scores \cup {RAISED}

\* A name that is not bound yet.
UNBOUND == -1

---------------------------------------------------------------------------
(* Arithmetic of the script *)

RECURSIVE Pow2(_)
Pow2(k) == IF k = 0 THEN 1 ELSE 2 * Pow2(k - 1)

\* Decimal.exp(): e^(m / 2^k) as a binary fixed-point number with ExpBits
\* fractional bits, summed from the Taylor series.  Every term is rounded
\* down, so ExpSeries is a lower bound of the value and ExpSeries + ExpSlack
\* an upper bound.
ExpBits == 24
ExpTerms == 20
ExpSlack == 200

RECURSIVE ExpTerm(_, _, _)
ExpTerm(m, k, i) ==
    IF i = 0 THEN Pow2(ExpBits)
    ELSE (ExpTerm(m, k, i - 1) * m) \div (Pow2(k) * i)

RECURSIVE ExpSum(_, _, _)
ExpSum(m, k, i) ==
    IF i = 0 THEN ExpTerm(m, k, 0)
    ELSE ExpSum(m, k, i - 1) + ExpTerm(m, k, i)

ExpSeries(m, k) == ExpSum(m, k, ExpTerms)

\* int(FIXED_ONE * cur) with cur = Decimal(m) / 2**k and FIXED_ONE = 1 << p
HiVal(p, m, k) == (Pow2(p) * m) \div Pow2(k)

\* int(FIXED_ONE * cur.exp()) with cur = Decimal(m) / 2**k and FIXED_ONE = 1 << p
HiExp(p, m, k) == ExpSeries(m, k) \div Pow2(ExpBits - p)

\* The series decides the integer part: both bounds truncate alike.
HiExpDecided(p, m, k) ==
    (ExpSeries(m, k) + ExpSlack) \div Pow2(ExpBits - p) = HiExp(p, m, k)

HiTerm(val, exp) == [val |-> val, exp |-> exp]
LoTerm(num, den) == [num |-> num, den |-> den]

---------------------------------------------------------------------------
(* Formatting *)

\* format(x, 'x'): the hexadecimal digits of x >= 0, most significant first
RECURSIVE HexDigits(_)
HexDigits(x) ==
    IF x < 16 THEN <<x>> ELSE Append(HexDigits(x \div 16), x % 16)

\* len(hex(x)): the digits and the 0x prefix (no L suffix: the values of
\* the model are machine integers)
HexLen(x) == 2 + Len(HexDigits(x))

RECURSIVE Zeros(_)
Zeros(k) == IF k <= 0 THEN <<>> ELSE <<0>> \o Zeros(k - 1)

\* '{:#0{w}x}'.format(x): 0x, then the digits zero-padded to w characters in all
FormatHex(x, w) ==
    [prefix |-> "0x", digits |-> Zeros(w - HexLen(x)) \o HexDigits(x)]

\* The value a reader of the emitted text takes from hexadecimal digits
RECURSIVE ParseHex(_)
ParseHex(d) ==
    IF d = <<>> THEN 0
    ELSE 16 * ParseHex(SubSeq(d, 1, Len(d) - 1)) + d[Len(d)]

\* max() of a non-empty list
SetMax(S) == CHOOSE x \in S : \A y \in S : y <= x

---------------------------------------------------------------------------
(* The statements the properties turn on *)

\* range(LOG_NUM_OF_HI_TERMS+1), line 20
\* (HiRangeShort: the faulty range(LOG_NUM_OF_HI_TERMS))
HiRangeShort(num) == 0 .. num - 1
HiRange(num) == 0 .. num

\* hiTerms[0].exp-1, line 27
\* (MaxValNoMargin: the faulty hiTerms[0].exp)
MaxValNoMargin(h) == h[1].exp
MaxValOf(h) == h[1].exp - 1

\* [LoTerm(FIXED_ONE*2,FIXED_ONE*2)], line 28
\* (EmptyTable: the faulty [], a search that starts without a seed)
EmptyTable(one) == <<>>
SeedTable(one) == <<LoTerm(one * 2, one * 2)>>

\* LoTerm(val//(2*n+1),val) with val = FIXED_ONE*(2*n+2), lines 32-33
\* (NextTermEvenDivisor: the faulty val//(2*n+2))
NextTermEvenDivisor(one, k) ==
    LET val == one * (2 * k + 2) IN LoTerm(val \div (2 * k + 2), val)
NextTerm(one, k) ==
    LET val == one * (2 * k + 2) IN LoTerm(val \div (2 * k + 1), val)

\* res < resNext, line 35
\* (ImprovesOrEqual: the faulty res <= resNext; ImprovesOrChanges: the
\* faulty res != resNext)
ImprovesOrEqual(a, b) == a <= b
ImprovesOrChanges(a, b) == a # b
Improves(a, b) == a < b

\* loTerms[:-1], line 55: the positions of all terms but the last
\* (AllTerms: the faulty loTerms, which prints the last term twice)
AllTerms(lo) == 1 .. Len(lo)
AllButLast(lo) == 1 .. Len(lo) - 1

\* One call log(MAX_VAL,hiTerms,table,FIXED_ONE) and what it produced
Call(table, r) ==
    [maxVal |-> MAX_VAL, hiTerms |-> hiTerms, loTerms |-> table,
     one |-> FIXED_ONE, result |-> r]

---------------------------------------------------------------------------
(* The lines of the emitted text *)

\* '        assert(x < 0x{:x});'.format(hiTerms[0].exp), line 48
BoundLine(h) == [kind |-> "assert_upper", exp |-> HexDigits(h[1].exp)]

\* line 50
ReduceLine(t, valLen, expLen) ==
    [kind |-> "reduce", val |-> FormatHex(t.val, valLen),
     exp |-> FormatHex(t.exp, expLen)]

\* lines 51-54
BlankLine == [kind |-> "blank"]
LowerLine == [kind |-> "assert_lower"]
SetupZYLine == [kind |-> "setup_zy"]
SetupWLine == [kind |-> "setup_w"]

\* line 56: accumulate, then advance z
AccumLine(t, numLen, denLen) ==
    [kind |-> "accumulate_advance", num |-> FormatHex(t.num, numLen),
     den |-> FormatHex(t.den, denLen)]

\* line 57: accumulate only
LastLine(t, numLen, denLen) ==
    [kind |-> "accumulate", num |-> FormatHex(t.num, numLen),
     den |-> FormatHex(t.den, denLen)]

---------------------------------------------------------------------------
(* The script.  Init is the state after the imports; lines 16-17 bind   *)
(* hiTerms and loTerms to empty lists and nothing reads either before     *)
(* line 20, so Init holds them already.                                    *)

Init ==
    /\ PRECISION \in Precisions
    /\ LOG_NUM_OF_HI_TERMS \in NumsOfHiTerms
    /\ LOG_MAX_HI_TERM_VAL \in MaxHiTermVals
    /\ pc = "fixed_one"
    /\ raised = FALSE
    /\ FIXED_ONE = UNBOUND
    /\ hiTerms = <<>>
    /\ loTerms = <<>>
    /\ n = UNBOUND
    /\ MAX_VAL = UNBOUND
    /\ res = UNBOUND
    /\ loTermsNext = <<>>
    /\ resNext = UNBOUND
    /\ hiTermValMaxLen = UNBOUND
    /\ hiTermExpMaxLen = UNBOUND
    /\ loTermNumMaxLen = UNBOUND
    /\ loTermDenMaxLen = UNBOUND
    /\ term = UNBOUND
    /\ out = <<>>
    /\ calls = <<>>

\* The statement at label l is the next to run.
At(l) == pc = l /\ ~raised

\* Control passes to the statement at label l.
Goto(l) == pc' = l /\ UNCHANGED raised

\* An uncaught exception ends the script where it stands.
Raise == raised' = TRUE /\ UNCHANGED pc

\* line 9: 1<<PRECISION raises ValueError on a negative shift count
ComputeFixedOne ==
    /\ At("fixed_one")
    /\ IF PRECISION < 0
       THEN Raise /\ UNCHANGED FIXED_ONE
       ELSE Goto("hi_loop") /\ FIXED_ONE' = Pow2(PRECISION)
    /\ UNCHANGED <<config, hiTerms, loTerms, n, MAX_VAL, res, loTermsNext,
                   resNext, widths, term, out, calls>>

\* The next value of the iterator of line 20
NextN == IF n = UNBOUND THEN 0 ELSE n + 1

\* lines 20-24: one pass of the loop body
BuildHiTerm ==
    /\ At("hi_loop")
    /\ NextN \in HiRange(LOG_NUM_OF_HI_TERMS)
    /\ n' = NextN
    /\ hiTerms' = Append(hiTerms,
                         HiTerm(HiVal(PRECISION, LOG_MAX_HI_TERM_VAL, NextN),
                                HiExp(PRECISION, LOG_MAX_HI_TERM_VAL, NextN)))
    /\ UNCHANGED <<config, pc, raised, FIXED_ONE, loTerms, MAX_VAL, res, loTermsNext,
                   resNext, widths, term, out, calls>>

\* line 27, reached when the iterator of line 20 is exhausted;
\* hiTerms[0] raises IndexError on an empty table
\* (ComputeMaxValPrinting: a faulty script that prints the bound assertion
\* as soon as it knows the bound, before the search)
ComputeMaxValPrinting ==
    /\ At("hi_loop")
    /\ NextN \notin HiRange(LOG_NUM_OF_HI_TERMS)
    /\ IF hiTerms = <<>>
       THEN Raise /\ UNCHANGED <<MAX_VAL, out>>
       ELSE /\ Goto("seed")
            /\ MAX_VAL' = MaxValOf(hiTerms)
            /\ out' = Append(out, BoundLine(hiTerms))
    /\ UNCHANGED <<config, FIXED_ONE, hiTerms, loTerms, n, res, loTermsNext,
                   resNext, widths, term, calls>>
ComputeMaxVal ==
    /\ At("hi_loop")
    /\ NextN \notin HiRange(LOG_NUM_OF_HI_TERMS)
    /\ IF hiTerms = <<>>
       THEN Raise /\ UNCHANGED MAX_VAL
       ELSE Goto("seed") /\ MAX_VAL' = MaxValOf(hiTerms)
    /\ UNCHANGED <<config, FIXED_ONE, hiTerms, loTerms, n, res, loTermsNext,
                   resNext, widths, term, out, calls>>

\* line 28
Seed ==
    /\ At("seed")
    /\ loTerms' = SeedTable(FIXED_ONE)
    /\ Goto("first_call")
    /\ UNCHANGED <<config, FIXED_ONE, hiTerms, n, MAX_VAL, res, loTermsNext,
                   resNext, widths, term, out, calls>>

\* line 29
FirstCall ==
    /\ At("first_call")
    /\ \E r \in OracleResults :
          /\ calls' = Append(calls, Call(loTerms, r))
          /\ IF r = RAISED
             THEN Raise /\ UNCHANGED res
             ELSE Goto("loop") /\ res' = r
    /\ UNCHANGED <<config, FIXED_ONE, hiTerms, loTerms, n, MAX_VAL,
                   loTermsNext, resNext, widths, term, out>>

\* lines 31-33
BuildCandidate ==
    /\ At("loop")
    /\ n' = Len(loTerms)
    /\ loTermsNext' = loTerms \o <<NextTerm(FIXED_ONE, Len(loTerms))>>
    /\ Goto("call")
    /\ UNCHANGED <<config, FIXED_ONE, hiTerms, loTerms, MAX_VAL, res, resNext,
                   widths, term, out, calls>>

\* line 34
NextCall ==
    /\ At("call")
    /\ \E r \in OracleResults :
          /\ calls' = Append(calls, Call(loTermsNext, r))
          /\ IF r = RAISED
             THEN Raise /\ UNCHANGED resNext
             ELSE Goto("test") /\ resNext' = r
    /\ UNCHANGED <<config, FIXED_ONE, hiTerms, loTerms, n, MAX_VAL, res,
                   loTermsNext, widths, term, out>>

\* lines 35-37: nothing runs between the two assignments
\* (AcceptKeepsScore: a faulty branch without line 36)
AcceptKeepsScore ==
    /\ At("test")
    /\ Improves(res, resNext)
    /\ loTerms' = loTermsNext
    /\ Goto("loop")
    /\ UNCHANGED <<config, FIXED_ONE, hiTerms, n, MAX_VAL, res, loTermsNext,
                   resNext, widths, term, out, calls>>
Accept ==
    /\ At("test")
    /\ Improves(res, resNext)
    /\ res' = resNext
    /\ loTerms' = loTermsNext
    /\ Goto("loop")
    /\ UNCHANGED <<config, FIXED_ONE, hiTerms, n, MAX_VAL, loTermsNext,
                   resNext, widths, term, out, calls>>

\* lines 35, 38-39
Stop ==
    /\ At("test")
    /\ ~Improves(res, resNext)
    /\ Goto("widths")
    /\ UNCHANGED <<config, FIXED_ONE, hiTerms, loTerms, n, MAX_VAL, res,
                   loTermsNext, resNext, widths, term, out, calls>>

\* lines 42-45: max() raises ValueError on the empty list hiTerms[+1:]
ComputeWidths ==
    /\ At("widths")
    /\ IF Tail(hiTerms) = <<>>
       THEN Raise /\ UNCHANGED widths
       ELSE /\ hiTermValMaxLen' =
                  SetMax({HexLen(hiTerms[i].val) : i \in 2 .. Len(hiTerms)})
            /\ hiTermExpMaxLen' =
                  SetMax({HexLen(hiTerms[i].exp) : i \in 2 .. Len(hiTerms)})
            /\ loTermNumMaxLen' =
                  SetMax({HexLen(loTerms[i].num) : i \in 1 .. Len(loTerms)})
            /\ loTermDenMaxLen' =
                  SetMax({HexLen(loTerms[i].den) : i \in 1 .. Len(loTerms)})
            /\ Goto("emit_upper")
    /\ UNCHANGED <<config, FIXED_ONE, hiTerms, loTerms, n, MAX_VAL, res,
                   loTermsNext, resNext, term, out, calls>>

\* line 48
EmitBound ==
    /\ At("emit_upper")
    /\ out' = Append(out, BoundLine(hiTerms))
    /\ Goto("emit_hi")
    /\ term' = 2
    /\ UNCHANGED <<config, FIXED_ONE, hiTerms, loTerms, n, MAX_VAL, res,
                   loTermsNext, resNext, widths, calls>>

\* lines 49-50: one pass over hiTerms[+1:]
EmitReduce ==
    /\ At("emit_hi")
    /\ term <= Len(hiTerms)
    /\ out' = Append(out, ReduceLine(hiTerms[term], hiTermValMaxLen,
                                     hiTermExpMaxLen))
    /\ term' = term + 1
    /\ UNCHANGED <<config, pc, raised, FIXED_ONE, hiTerms, loTerms, n, MAX_VAL, res,
                   loTermsNext, resNext, widths, calls>>

\* line 51, reached when the loop of line 49 is exhausted
EmitBlank ==
    /\ At("emit_hi")
    /\ term > Len(hiTerms)
    /\ out' = Append(out, BlankLine)
    /\ Goto("emit_lower")
    /\ UNCHANGED <<config, FIXED_ONE, hiTerms, loTerms, n, MAX_VAL, res,
                   loTermsNext, resNext, widths, term, calls>>

\* line 52
EmitLower ==
    /\ At("emit_lower")
    /\ out' = Append(out, LowerLine)
    /\ Goto("emit_zy")
    /\ UNCHANGED <<config, FIXED_ONE, hiTerms, loTerms, n, MAX_VAL, res,
                   loTermsNext, resNext, widths, term, calls>>

\* line 53
EmitSetupZY ==
    /\ At("emit_zy")
    /\ out' = Append(out, SetupZYLine)
    /\ Goto("emit_w")
    /\ UNCHANGED <<config, FIXED_ONE, hiTerms, loTerms, n, MAX_VAL, res,
                   loTermsNext, resNext, widths, term, calls>>

\* line 54
EmitSetupW ==
    /\ At("emit_w")
    /\ out' = Append(out, SetupWLine)
    /\ Goto("emit_lo")
    /\ term' = 1
    /\ UNCHANGED <<config, FIXED_ONE, hiTerms, loTerms, n, MAX_VAL, res,
                   loTermsNext, resNext, widths, calls>>

\* lines 55-56: one pass over loTerms[:-1]
EmitAccum ==
    /\ At("emit_lo")
    /\ term \in AllButLast(loTerms)
    /\ out' = Append(out, AccumLine(loTerms[term], loTermNumMaxLen,
                                    loTermDenMaxLen))
    /\ term' = term + 1
    /\ UNCHANGED <<config, pc, raised, FIXED_ONE, hiTerms, loTerms, n, MAX_VAL, res,
                   loTermsNext, resNext, widths, calls>>

\* line 57, reached when the loop of line 55 is exhausted
EmitLast ==
    /\ At("emit_lo")
    /\ term \notin AllButLast(loTerms)
    /\ out' = Append(out, LastLine(loTerms[Len(loTerms)], loTermNumMaxLen,
                                   loTermDenMaxLen))
    /\ Goto("done")
    /\ UNCHANGED <<config, FIXED_ONE, hiTerms, loTerms, n, MAX_VAL, res,
                   loTermsNext, resNext, widths, term, calls>>

Next ==
    \/ ComputeFixedOne
    \/ BuildHiTerm
    \/ ComputeMaxVal
    \/ Seed
    \/ FirstCall
    \/ BuildCandidate
    \/ NextCall
    \/ Accept
    \/ Stop
    \/ ComputeWidths
    \/ EmitBound
    \/ EmitReduce
    \/ EmitBlank
    \/ EmitLower
    \/ EmitSetupZY
    \/ EmitSetupW
    \/ EmitAccum
    \/ EmitLast

Spec == Init /\ [][Next]_vars

\* The script runs to its end: it is one sequential process that nothing suspends.
FairSpec == Spec /\ WF_vars(Next)

---------------------------------------------------------------------------
(* Positions and shapes the properties speak of *)

SearchPcs == {"first_call", "loop", "call", "test"}
EmitPcs == {"emit_upper", "emit_hi", "emit_lower", "emit_zy", "emit_w", "emit_lo"}
StoppedPcs == {"widths"} \cup EmitPcs \cup {"done"}
SeededPcs == SearchPcs \cup StoppedPcs
HiBuiltPcs == {"seed"} \cup SeededPcs

\* t is s with exactly one term appended
OneAppended(s, t) == Len(t) = Len(s) + 1 /\ SubSeq(t, 1, Len(s)) = s

\* The series of HiExp decides every integer part the model computes.
ExpSeriesDecides ==
    \A p \in 0 .. MaxPrecision, m \in MaxHiTermVals, k \in 0 .. MaxNumHiTerms :
        HiExpDecided(p, m, k)

\* The term of position k (0-indexed) rebuilt from scratch
ClosedFormTerm(k) ==
    LET den == FIXED_ONE * (2 * k + 2)
    IN  [num |-> den \div (2 * k + 1), den |-> den]

ClosedForm(table) ==
    \A k \in 1 .. Len(table) : table[k] = ClosedFormTerm(k - 1)

\* What a line of the output is, in the words of the output's description
Category(line) ==
    CASE line.kind = "assert_upper" -> "bound assertion"
      [] line.kind = "reduce" -> "conditional reduction"
      [] line.kind = "blank" -> "empty line"
      [] line.kind = "assert_lower" -> "lower-bound assertion"
      [] line.kind \in {"setup_zy", "setup_w"} -> "setup"
      [] line.kind \in {"accumulate_advance", "accumulate"} -> "accumulation"

Categories(lines) == [i \in 1 .. Len(lines) |-> Category(lines[i])]

RECURSIVE Repeat(_, _)
Repeat(x, k) == IF k <= 0 THEN <<>> ELSE <<x>> \o Repeat(x, k - 1)

---------------------------------------------------------------------------
(* C1 *)

\* C1: monotonic stop.  Once the search has stopped with a table of length
\* L, the oracle was called L+1 times, on the tables of lengths 1 .. L+1,
\* each the previous one with one term appended; the scores rose strictly
\* over lengths 1 .. L, the score of length L+1 is not strictly greater
\* than that of length L, and the table kept is the one of length L.  If
\* the first growth step does not improve, the seed table is what is kept.
MonotonicStop ==
    pc \in StoppedPcs =>
        LET L == Len(loTerms)
        IN  /\ Len(calls) = L + 1
            /\ \A i \in 1 .. L + 1 :
                  Len(calls[i].loTerms) = i /\ calls[i].result \in Scores
            /\ \A i \in 1 .. L : OneAppended(calls[i].loTerms, calls[i + 1].loTerms)
            /\ \A i \in 1 .. L - 1 : calls[i].result < calls[i + 1].result
            /\ ~(calls[L].result < calls[L + 1].result)
            /\ calls[L].loTerms = loTerms
            /\ (~(calls[1].result < calls[2].result)
                  => loTerms = <<LoTerm(2 * FIXED_ONE, 2 * FIXED_ONE)>>)

\* The search stopped on an equal score after at least one accepted step.
MonotonicStopWitness ==
    /\ pc \in StoppedPcs
    /\ Len(loTerms) >= 2
    /\ calls[Len(loTerms) + 1].result = calls[Len(loTerms)].result

\* C2: termination.  With scores drawn from the finite ordered set Scores,
\* every run leaves the search loop (by the stop branch, unless a call
\* raised), and the number of accepted growth steps never exceeds the
\* number of distinct scores.
SearchTerminates ==
    /\ <>(raised \/ pc \in StoppedPcs)
    /\ [](Len(loTerms) - 1 <= Cardinality(Scores))

\* The stop branch was taken after the longest rise the scores allow.
SearchTerminatesWitness ==
    pc = "widths" /\ Len(loTerms) = MaxScore + 1

\* C3: from seeding on the table holds at least one term, and no call of
\* the oracle was given an empty table.
TableNeverEmpty ==
    /\ pc \in SeededPcs => Len(loTerms) >= 1
    /\ pc \in {"call", "test"} => Len(loTermsNext) >= 1
    /\ \A i \in 1 .. Len(calls) : Len(calls[i].loTerms) >= 1

\* The oracle evaluated the seed table and a candidate, and the script ended.
TableNeverEmptyWitness ==
    pc = "done" /\ Len(calls) >= 2 /\ Len(loTerms) = 1

\* C4: every entry of the table, of the candidate and of every table given
\* to the oracle is the closed form of its position: den = ONE*(2k+2),
\* num = floor(den / (2k+1)), the seed being position 0.
ClosedFormTable ==
    /\ ClosedForm(loTerms)
    /\ ClosedForm(loTermsNext)
    /\ \A i \in 1 .. Len(calls) : ClosedForm(calls[i].loTerms)

\* A table of three terms was accepted and a fourth offered to the oracle.
ClosedFormTableWitness ==
    Len(loTerms) = 3 /\ Len(loTermsNext) = 4 /\ pc = "test"

\* The entries of a finished high-term table, by position
HiEntries ==
    /\ Len(hiTerms) = LOG_NUM_OF_HI_TERMS + 1
    /\ \A i \in 1 .. Len(hiTerms) :
          /\ hiTerms[i].val = (FIXED_ONE * LOG_MAX_HI_TERM_VAL) \div Pow2(i - 1)
          /\ hiTerms[i].exp = HiExp(PRECISION, LOG_MAX_HI_TERM_VAL, i - 1)

\* C5 as stated: the finished table has numHiTerms + 1 entries, entry n
\* holds trunc(ONE * maxHiVal / 2^n) and trunc(ONE * e^(maxHiVal / 2^n)),
\* and the stored exp values are strictly decreasing in table order.
HiTableStrictlyDecreasing ==
    pc \in HiBuiltPcs =>
        /\ HiEntries
        /\ \A i \in 1 .. Len(hiTerms) - 1 : hiTerms[i].exp > hiTerms[i + 1].exp

\* C5 as amended: the same, with the stored exp values non-increasing.
HiTableNonIncreasing ==
    pc \in HiBuiltPcs =>
        /\ HiEntries
        /\ \A i \in 1 .. Len(hiTerms) - 1 : hiTerms[i].exp >= hiTerms[i + 1].exp

\* A finished table in which truncation made two neighbours equal.
HiTableWitness ==
    /\ pc \in HiBuiltPcs
    /\ Len(hiTerms) = 3
    /\ hiTerms[2].exp = hiTerms[3].exp
    /\ hiTerms[1].exp > hiTerms[2].exp

\* A step taken after line 27 leaves MAX_VAL, hiTerms and FIXED_ONE alone.
MaxValKept ==
    pc \in HiBuiltPcs =>
        /\ MAX_VAL' = MAX_VAL
        /\ hiTerms' = hiTerms
        /\ FIXED_ONE' = FIXED_ONE

\* C6: once computed, MAX_VAL is hiTerms[0].exp - 1 and stays so: no later
\* step changes MAX_VAL, the high-term table or FIXED_ONE, every oracle call
\* was given these same three values, and the literal of the emitted bound
\* assertion admits exactly the inputs up to MAX_VAL.
MaxValStable ==
    /\ [](pc \in HiBuiltPcs => MAX_VAL = hiTerms[1].exp - 1)
    /\ [](\A i \in 1 .. Len(calls) :
             /\ calls[i].maxVal = MAX_VAL
             /\ calls[i].hiTerms = hiTerms
             /\ calls[i].one = FIXED_ONE)
    /\ [](out # <<>> =>
             /\ out[1].kind = "assert_upper"
             /\ \A x \in 0 .. MAX_VAL + 2 :
                   (x < ParseHex(out[1].exp)) <=> (x <= MAX_VAL))
    /\ [][MaxValKept]_vars

\* The script ended after three oracle calls and the bound needs two digits.
MaxValStableWitness ==
    pc = "done" /\ Len(calls) >= 3 /\ MAX_VAL >= 16

\* C7: no partial output.  A line is printed only by a run that raised
\* nothing, with the high-term table built, the search stopped and the four
\* widths computed; a run that raised printed nothing; a run that reached
\* the end printed every line.
NoPartialOutput ==
    /\ out # <<>> =>
          /\ ~raised
          /\ pc \in EmitPcs \cup {"done"}
          /\ Len(hiTerms) = LOG_NUM_OF_HI_TERMS + 1
          /\ Len(calls) = Len(loTerms) + 1
          /\ ~(res < resNext)
          /\ \A w \in {hiTermValMaxLen, hiTermExpMaxLen,
                       loTermNumMaxLen, loTermDenMaxLen} : w # UNBOUND
    /\ raised => out = <<>>
    /\ pc = "done" => Len(out) = LOG_NUM_OF_HI_TERMS + Len(loTerms) + 5

\* An oracle call raised in the middle of the search.
NoPartialOutputWitness ==
    raised /\ pc = "call" /\ Len(calls) >= 3

\* The literals of the output name the table entries, in table order.
LiteralsFollowTables ==
    LET N == LOG_NUM_OF_HI_TERMS
        L == Len(loTerms)
    IN  /\ \A i \in 1 .. N :
              /\ ParseHex(out[1 + i].val.digits) = hiTerms[i + 1].val
              /\ ParseHex(out[1 + i].exp.digits) = hiTerms[i + 1].exp
        /\ \A i \in 1 .. L :
              /\ ParseHex(out[N + 5 + i].num.digits) = loTerms[i].num
              /\ ParseHex(out[N + 5 + i].den.digits) = loTerms[i].den

\* C8 as stated: a run that reaches the end has printed one bound
\* assertion, numHiTerms conditional reductions, one lower-bound assertion,
\* three setup statements and |LoTerms| accumulations, and nothing else.
OutputShapeAsStated ==
    pc = "done" =>
        Categories(out) =
            <<"bound assertion">>
            \o Repeat("conditional reduction", LOG_NUM_OF_HI_TERMS)
            \o <<"lower-bound assertion">>
            \o Repeat("setup", 3)
            \o Repeat("accumulation", Len(loTerms))

\* C8 as amended: a run that reaches the end has printed one bound
\* assertion, numHiTerms conditional reductions (one per HiTerm after the
\* first, in table order), one empty line, one lower-bound assertion, two
\* setup lines and |LoTerms| accumulations (one per LoTerm, in table
\* order), and nothing else.
OutputShape ==
    pc = "done" =>
        /\ Categories(out) =
              <<"bound assertion">>
              \o Repeat("conditional reduction", LOG_NUM_OF_HI_TERMS)
              \o <<"empty line", "lower-bound assertion">>
              \o Repeat("setup", 2)
              \o Repeat("accumulation", Len(loTerms))
        /\ LiteralsFollowTables

\* A finished output with two reductions and three accumulations.
OutputShapeWitness ==
    pc = "done" /\ LOG_NUM_OF_HI_TERMS = 2 /\ Len(loTerms) = 3

\* A step of the loop keeps table and score, or appends one term and
\* raises the score.
LoopStepKeepsOrAppends ==
    pc \in {"loop", "call", "test"} =>
        \/ loTerms' = loTerms /\ res' = res
        \/ OneAppended(loTerms, loTerms') /\ res < res'

\* A step keeps every term the table holds.
TableOnlyExtended ==
    /\ Len(loTerms') >= Len(loTerms)
    /\ SubSeq(loTerms', 1, Len(loTerms)) = loTerms

\* C10: append-only growth.  A step of the loop either leaves the table and
\* the score alone or appends exactly one term to the table and replaces
\* the score by a strictly greater one; no step of the script shortens the
\* table or changes a term it holds; at the loop head the score is the one
\* the oracle gave for the current table.
AppendOnlyGrowth ==
    /\ [][LoopStepKeepsOrAppends]_vars
    /\ [][TableOnlyExtended]_vars
    /\ [](pc = "loop" =>
             \E i \in 1 .. Len(calls) :
                 calls[i].loTerms = loTerms /\ calls[i].result = res)

\* The stop step was taken after an accepted growth step.
AppendOnlyGrowthWitness ==
    pc = "widths" /\ Len(loTerms) >= 2 /\ resNext < res

====
